---- MODULE Spec2Model ----
(***************************************************************************)
(* restore-files.py: restore archived files guided by ".txt" placeholder   *)
(* markers.  Strings are sequences of one-character strings, paths are     *)
(* sequences of path components, so that endswith, slicing, lower(),       *)
(* strip(), substring search, normpath, split and relpath are computed.    *)
(***************************************************************************)
EXTENDS Naturals, Sequences, FiniteSets, TLC

VARIABLES
    target_dir,    \* args.target_dir, split on os.path.sep
    dry_run,       \* args.dry_run
    fsT,           \* the tree under target_dir: relative path -> node
    fsA,           \* the tree under archive_root/Shared/...: relative path -> node
    path_to_archive, \* full_archive_path returned by construct_and_validate_paths
    pc,            \* position in main / restore_archived_files
    raised,        \* the exception that left restore_archived_files, or "none"
    placeholders,  \* the list collect_txt_placeholders returned
    idx,           \* position of the for loop in placeholders (1-based)
    counts,        \* restored, skipped, missing, errors
    results,       \* result of each process_placeholder call of this pass, in order
    last,          \* the latest process_placeholder call and what it did
    fs0,           \* the target tree as it was when this pass started
    prior,         \* restores of earlier passes: marker and file written
    current,       \* restores of this pass: marker and file written
    calls,         \* how often this pass entered the validator and the scanner
    pass,          \* number of the current invocation of the script
    exit           \* what main printed last: "none", "summary" or "fatal"

vars == << target_dir, dry_run, fsT, fsA, path_to_archive, pc, raised,
           placeholders, idx, counts, results, last, fs0, prior, current,
           calls, pass, exit >>

-----------------------------------------------------------------------------
(* Bounds of the model *)
MaxPasses == 2

(* Program constants *)
ExtLen == 4

-----------------------------------------------------------------------------
(* Strings *)
Ext == <<".", "t", "x", "t">>
Phrase == <<"a", "u", "t", "o", "m", "a", "t", "i", "c", " ", "a", "r", "c", "h", "i", "v", "i", "n", "g", " ", "p", "o", "l", "i", "c", "y">>
Anchor == <<"S", "h", "a", "r", "e", "d">>
Dot == <<".">>
DotDot == <<".", ".">>
Empty == << >>

Uppers == <<"A", "B", "C", "D", "E", "F", "G", "H", "I", "J", "K", "L", "M", "N", "O", "P", "Q", "R", "S", "T", "U", "V", "W", "X", "Y", "Z">>
Lowers == <<"a", "b", "c", "d", "e", "f", "g", "h", "i", "j", "k", "l", "m", "n", "o", "p", "q", "r", "s", "t", "u", "v", "w", "x", "y", "z">>

\* str.lower() on one character
LowerChar(c) ==
    IF \E i \in 1..Len(Uppers) : Uppers[i] = c
    THEN Lowers[CHOOSE i \in 1..Len(Uppers) : Uppers[i] = c]
    ELSE c

\* str.lower()
Lower(s) == [i \in 1..Len(s) |-> LowerChar(s[i])]

IsSpace(c) == c \in {" ", "\n", "\t", "\r"}

\* str.strip()
Strip(s) ==
    LET keep == {i \in 1..Len(s) : ~IsSpace(s[i])}
    IN  IF keep = {} THEN << >>
        ELSE LET lo == CHOOSE i \in keep : \A j \in keep : i <= j
                 hi == CHOOSE i \in keep : \A j \in keep : j <= i
             IN  SubSeq(s, lo, hi)

\* needle in haystack
Contains(hay, needle) ==
    \E i \in 1..(Len(hay) + 1) :
        /\ i + Len(needle) - 1 <= Len(hay)
        /\ SubSeq(hay, i, i + Len(needle) - 1) = needle

\* str.endswith
EndsWith(s, suffix) ==
    /\ Len(s) >= Len(suffix)
    /\ SubSeq(s, Len(s) - Len(suffix) + 1, Len(s)) = suffix

\* s[:-4]
StripExt(s) == IF Len(s) > ExtLen THEN SubSeq(s, 1, Len(s) - ExtLen) ELSE << >>

\* file.readline(): the first line with its newline, "" at end of file
ReadLine(text) ==
    IF \E i \in 1..Len(text) : text[i] = "\n"
    THEN SubSeq(text, 1, CHOOSE i \in 1..Len(text) :
                             text[i] = "\n" /\ \A j \in 1..(i-1) : text[j] # "\n")
    ELSE text

-----------------------------------------------------------------------------
(* Paths *)
Last(s) == s[Len(s)]
Range(s) == {s[i] : i \in 1..Len(s)}
Front(s) == SubSeq(s, 1, Len(s) - 1)

\* os.path.normpath on a split path: "" and "." components go, ".." takes the
\* component before it; the leading "" of an absolute path stays
RECURSIVE NormFrom(_, _)
NormFrom(done, rest) ==
    IF rest = << >> THEN done
    ELSE LET c == Head(rest) IN
         IF c = Empty \/ c = Dot THEN NormFrom(done, Tail(rest))
         ELSE IF c = DotDot
              THEN IF done # << >> /\ Last(done) # DotDot /\ Last(done) # Empty
                   THEN NormFrom(Front(done), Tail(rest))
                   ELSE IF done # << >> /\ Last(done) = Empty
                        THEN NormFrom(done, Tail(rest))
                        ELSE NormFrom(Append(done, c), Tail(rest))
              ELSE NormFrom(Append(done, c), Tail(rest))

NormPath(p) ==
    IF p # << >> /\ Head(p) = Empty
    THEN NormFrom(<<Empty>>, Tail(p))
    ELSE NormFrom(<< >>, p)

\* os.path.join(dir, name)
Join(dir, name) == Append(dir, name)

\* os.path.relpath(path, start) for a path at or below start
RelPath(path, start) ==
    LET p == NormPath(path)
        s == NormPath(start)
    IN  IF Len(p) > Len(s) THEN SubSeq(p, Len(s) + 1, Len(p)) ELSE <<Dot>>

\* list.index
IndexOf(seq, x) == CHOOSE i \in 1..Len(seq) : seq[i] = x /\ \A j \in 1..(i-1) : seq[j] # x

-----------------------------------------------------------------------------
(* The filesystem *)
A == <<"a">>
ATxt == <<"a", ".", "t", "x", "t">>
ATxtTxt == <<"a", ".", "t", "x", "t", ".", "t", "x", "t">>
D == <<"d">>

\* file contents
P == <<"A", "u", "t", "o", "m", "a", "t", "i", "c", " ", "A", "r", "c", "h", "i", "v", "i", "n", "g", " ", "P", "o", "l", "i", "c", "y", " ", "v", "2", "\n", "x", "\n">>
N == <<"M", "e", "e", "t", "i", "n", "g", " ", "n", "o", "t", "e", "s", "\n", "a", "u", "t", "o", "m", "a", "t", "i", "c", " ", "a", "r", "c", "h", "i", "v", "i", "n", "g", " ", "p", "o", "l", "i", "c", "y", "\n">>
Q == <<" ", " ", "A", "U", "T", "O", "M", "A", "T", "I", "C", " ", "A", "R", "C", "H", "I", "V", "I", "N", "G", " ", "P", "O", "L", "I", "C", "Y", "\n">>
Text(c) == CASE c = "P" -> P [] c = "Q" -> Q [] c = "N" -> N [] OTHER -> << >>
\* "U" cannot be opened or decoded as text; "E" is an empty, truncated file
Readable(c) == c # "U"

IsFileNode(n) == n \notin {"absent", "dir"}
IsDirNode(n) == n = "dir"

TKeys == { << >>, <<A>>, <<ATxt>>, <<ATxtTxt>>, <<D>>, <<A, A>>, <<D, A>>, <<D, ATxt>> }
AKeys == { << >>, <<A>>, <<ATxt>>, <<D>>, <<D, A>> }

\* the node a path names in the tree rooted at root
NodeAt(fs, root, path) ==
    LET r == RelPath(path, root)
        k == IF r = <<Dot>> THEN << >> ELSE r
    IN  IF k \in DOMAIN fs THEN fs[k] ELSE "absent"

KeyOf(root, path) ==
    LET r == RelPath(path, root) IN IF r = <<Dot>> THEN << >> ELSE r

\* os.path.isfile, os.path.isdir
IsFile(fs, root, path) == IsFileNode(NodeAt(fs, root, path))
IsDir(fs, root, path) == IsDirNode(NodeAt(fs, root, path))

-----------------------------------------------------------------------------
(* Inputs *)
Mnt == <<"m", "n", "t">>
Docs == <<"d", "o", "c", "s">>
Arc == <<"a", "r", "c">>

\* args.archive_root, split: /arc
archive_root == <<Empty, Arc>>

\* /mnt/Shared/./docs
AnchoredDirs == { <<Empty, Mnt, Anchor, Dot, Docs>> }
\* /mnt/docs, /mnt/Shared/../docs
OtherDirs == { <<Empty, Mnt, Docs>>, <<Empty, Mnt, Anchor, DotDot, Docs>> }

TreeT(a, at, att, da, dat) ==
    [k \in TKeys |->
        CASE k = << >> -> "dir"
          [] k = <<A>> -> a
          [] k = <<ATxt>> -> at
          [] k = <<ATxtTxt>> -> att
          [] k = <<D>> -> IF da = "nodir" THEN "absent" ELSE "dir"
          [] k = <<A, A>> -> "absent"
          [] k = <<D, A>> -> IF da = "nodir" THEN "absent" ELSE da
          [] k = <<D, ATxt>> -> IF da = "nodir" THEN "absent" ELSE dat]

TreeA(a, at, da) ==
    [k \in AKeys |->
        CASE k = << >> -> "dir"
          [] k = <<A>> -> a
          [] k = <<ATxt>> -> at
          [] k = <<D>> -> IF da = "nodir" THEN "absent" ELSE "dir"
          [] k = <<D, A>> -> IF da = "nodir" THEN "absent" ELSE da]

NoTree(keys) == [k \in keys |-> "absent"]

TargetTrees ==
    { TreeT(a, at, att, da, dat) :
        a \in {"absent", "N", "dir"}, at \in {"absent", "P", "N"},
        att \in {"absent", "Q", "U"}, da \in {"nodir", "absent", "N"},
        dat \in {"absent", "P"} } \cup { NoTree(TKeys) }

ArchiveTrees ==
    { TreeA(a, at, da) :
        a \in {"absent", "P", "dir"}, at \in {"absent", "P"},
        da \in {"nodir", "absent", "N"} } \cup { NoTree(AKeys) }

NoCall == [ dirpath |-> << >>, filename |-> << >>, src |-> "absent",
            dst |-> "absent", dstKey |-> << >>, marker |-> << >>,
            result |-> "none", wrote |-> << >>,
            changed |-> FALSE, again |-> FALSE ]

NoCalls == [validator |-> 0, scanner |-> 0]

ZeroCounts == [restored |-> 0, skipped |-> 0, missing |-> 0, errors |-> 0]

\* trees with at most the entries a and a.txt
SmallTargetTrees == {t \in TargetTrees : t[<<ATxtTxt>>] = "absent" /\ t[<<D>>] = "absent"}
SmallArchiveTrees == {t \in ArchiveTrees : t[<<ATxt>>] = "absent" /\ t[<<D>>] = "absent"}

Init ==
    /\ \/ /\ target_dir \in AnchoredDirs
          /\ fsT \in TargetTrees
          /\ fsA \in ArchiveTrees
       \/ /\ target_dir \in OtherDirs
          /\ fsT \in SmallTargetTrees
          /\ fsA \in SmallArchiveTrees
    /\ dry_run \in BOOLEAN
    /\ path_to_archive = << >>
    /\ pc = "validate"
    /\ raised = "none"
    /\ placeholders = << >>
    /\ idx = 1
    /\ counts = ZeroCounts
    /\ results = << >>
    /\ last = NoCall
    /\ fs0 = fsT
    /\ prior = {}
    /\ current = {}
    /\ calls = NoCalls
    /\ pass = 1
    /\ exit = "none"

-----------------------------------------------------------------------------
(* construct_and_validate_paths *)

\* normalized_path.split(os.path.sep)
SplitPath(dir) == NormPath(dir)

HasAnchor(dir) == \E i \in 1..Len(SplitPath(dir)) : SplitPath(dir)[i] = Anchor

\* os.path.join(archive_root, os.path.join(*split_path[index:]))
FullArchivePath(dir, root) ==
    LET sp == SplitPath(dir)
    IN  root \o SubSeq(sp, IndexOf(sp, Anchor), Len(sp))

\* Faulty variant: the anchor is looked for before the target directory is tested
ValidationError_AnchorFirst(dir) ==
    IF ~HasAnchor(dir) THEN "AnchorMissing"
    ELSE IF ~IsDirNode(fsT[<< >>]) THEN "TargetMissing"
    ELSE IF ~IsDirNode(fsA[<< >>]) THEN "ArchiveMissing"
    ELSE "none"

\* the ValueError raised, or "none"
ValidationError(dir) ==
    IF ~IsDirNode(fsT[<< >>]) THEN "TargetMissing"
    ELSE IF ~HasAnchor(dir) THEN "AnchorMissing"
    ELSE IF ~IsDirNode(fsA[<< >>]) THEN "ArchiveMissing"
    ELSE "none"

Validate ==
    /\ pc = "validate"
    /\ LET e == ValidationError(target_dir) IN
         /\ raised' = e
         /\ pc' = IF e = "none" THEN "scan" ELSE "raised"
         /\ path_to_archive' = IF e = "none"
                               THEN FullArchivePath(target_dir, archive_root)
                               ELSE << >>
    /\ calls' = [calls EXCEPT !.validator = @ + 1]
    /\ UNCHANGED << target_dir, dry_run, fsT, fsA, placeholders, idx, counts,
                    results, last, fs0, prior, current, pass, exit >>

-----------------------------------------------------------------------------
(* collect_txt_placeholders *)
Names == {A, ATxt, ATxtTxt, D}

\* the entries os.walk lists in the directory with key k
FileNames(fs, k) ==
    {n \in Names : Append(k, n) \in DOMAIN fs /\ IsFileNode(fs[Append(k, n)])}
DirNames(fs, k) ==
    {n \in Names : Append(k, n) \in DOMAIN fs /\ IsDirNode(fs[Append(k, n)])}

\* the orders in which a directory listing can come
Perms(S) ==
    {f \in [1..Cardinality(S) -> S] : \A i, j \in 1..Cardinality(S) : f[i] = f[j] => i = j}

\* Faulty variant: the first line is not lowered before the test
IsPlaceholder_CaseSensitive(node) ==
    /\ Readable(node)
    /\ Contains(Strip(ReadLine(Text(node))), Phrase)

\* open(), readline().strip(), and the test of the first line; FALSE when the
\* read raises
IsPlaceholder(node) ==
    /\ Readable(node)
    /\ Contains(Lower(Strip(ReadLine(Text(node)))), Phrase)

\* the inner loop over filenames of one directory
CollectDir(fs, top, dirpath, filenames) ==
    LET Keep(filename) ==
            /\ EndsWith(filename, Ext)
            /\ IsPlaceholder(NodeAt(fs, top, Join(dirpath, filename)))
        kept == SelectSeq(filenames, Keep)
    IN  [i \in 1..Len(kept) |-> <<dirpath, kept[i]>>]

\* the directories below top, in listing order, each with its file order
RECURSIVE CollectSub(_, _, _, _)
CollectSub(fs, top, dirnames, order) ==
    IF dirnames = << >> THEN << >>
    ELSE CollectDir(fs, top, Join(top, Head(dirnames)), order[Head(dirnames)])
            \o CollectSub(fs, top, Tail(dirnames), order)

Scan ==
    /\ pc = "scan"
    /\ \E rootOrder \in Perms(FileNames(fsT, << >>)),
          dirOrder \in Perms(DirNames(fsT, << >>)),
          aOrder \in Perms(FileNames(fsT, <<A>>)),
          dOrder \in Perms(FileNames(fsT, <<D>>)) :
            placeholders' =
                CollectDir(fsT, target_dir, target_dir, rootOrder)
                  \o CollectSub(fsT, target_dir, dirOrder,
                                [n \in {A, D} |-> IF n = A THEN aOrder ELSE dOrder])
    /\ pc' = "loop"
    /\ idx' = 1
    /\ calls' = [calls EXCEPT !.scanner = @ + 1]
    /\ UNCHANGED << target_dir, dry_run, fsT, fsA, path_to_archive, raised,
                    counts, results, last, fs0, prior, current, pass, exit >>

-----------------------------------------------------------------------------
(* process_placeholder *)

\* placeholder_filename[:-4]
OriginalFilename(placeholder_filename) == StripExt(placeholder_filename)

ArchivedFile(dirpath, placeholder_filename) ==
    Join(path_to_archive \o RelPath(dirpath, target_dir),
         OriginalFilename(placeholder_filename))

TargetFile(dirpath, placeholder_filename) ==
    Join(dirpath, OriginalFilename(placeholder_filename))

PlaceholderFile(dirpath, placeholder_filename) ==
    Join(dirpath, placeholder_filename)

\* what can go wrong in the try block
Fails == {"none", "makedirs", "copy_open", "copy_write", "remove"}

\* shutil.copy(src, dst): a dst that is a directory receives the file under
\* the source's base name
CopyDest(fs, src, dst) ==
    IF IsDir(fs, target_dir, dst) THEN Join(dst, Last(src)) ELSE dst

\* Faulty variant: a failed remove takes the copied file away again
Restore_RollsBack(dirpath, archived_file, target_file, placeholder_file, fail) ==
    LET dest == KeyOf(target_dir, CopyDest(fsT, archived_file, target_file))
        marker == KeyOf(target_dir, placeholder_file)
        data == NodeAt(fsA, path_to_archive, archived_file)
        copied == [fsT EXCEPT ![dest] = data]
    IN  IF fail \in {"makedirs", "copy_open", "copy_write"}
           \/ dest \notin DOMAIN fsT \/ IsDirNode(fsT[dest])
        THEN [result |-> "error", fsT |-> fsT, fsA |-> fsA, wrote |-> << >>]
        ELSE IF fail = "remove"
        THEN [result |-> "error", fsT |-> fsT, fsA |-> fsA, wrote |-> <<dest>>]
        ELSE [result |-> "restored", fsT |-> [copied EXCEPT ![marker] = "absent"],
              fsA |-> fsA, wrote |-> <<dest>>]

\* Faulty variant: shutil.move in place of shutil.copy: the archived file is gone
Restore_Moves(dirpath, archived_file, target_file, placeholder_file, fail) ==
    LET dest == KeyOf(target_dir, CopyDest(fsT, archived_file, target_file))
        marker == KeyOf(target_dir, placeholder_file)
        source == KeyOf(path_to_archive, archived_file)
        data == NodeAt(fsA, path_to_archive, archived_file)
        copied == [fsT EXCEPT ![dest] = data]
        moved == [fsA EXCEPT ![source] = "absent"]
    IN  IF fail \in {"makedirs", "copy_open", "copy_write"}
           \/ dest \notin DOMAIN fsT \/ IsDirNode(fsT[dest])
        THEN [result |-> "error", fsT |-> fsT, fsA |-> fsA, wrote |-> << >>]
        ELSE IF fail = "remove"
        THEN [result |-> "error", fsT |-> copied, fsA |-> moved, wrote |-> <<dest>>]
        ELSE [result |-> "restored", fsT |-> [copied EXCEPT ![marker] = "absent"],
              fsA |-> moved, wrote |-> <<dest>>]

\* the try block: makedirs, copy, remove
Restore(dirpath, archived_file, target_file, placeholder_file, fail) ==
    LET dest == KeyOf(target_dir, CopyDest(fsT, archived_file, target_file))
        marker == KeyOf(target_dir, placeholder_file)
        data == NodeAt(fsA, path_to_archive, archived_file)
        copied == [fsT EXCEPT ![dest] = data]
    IN  IF fail = "makedirs" \/ fail = "copy_open"
        THEN [result |-> "error", fsT |-> fsT, fsA |-> fsA, wrote |-> << >>]
        ELSE IF dest \notin DOMAIN fsT \/ IsDirNode(fsT[dest])
        THEN [result |-> "error", fsT |-> fsT, fsA |-> fsA, wrote |-> << >>]
        ELSE IF fail = "copy_write"
        THEN [result |-> "error", fsT |-> [fsT EXCEPT ![dest] = "E"],
              fsA |-> fsA, wrote |-> << >>]
        ELSE IF fail = "remove"
        THEN [result |-> "error", fsT |-> copied, fsA |-> fsA, wrote |-> <<dest>>]
        ELSE [result |-> "restored", fsT |-> [copied EXCEPT ![marker] = "absent"],
              fsA |-> fsA, wrote |-> <<dest>>]

\* Faulty variant: the dry_run flag is not looked at
ProcessPlaceholder_IgnoresDryRun(dirpath, placeholder_filename, dr, fail) ==
    LET archived_file == ArchivedFile(dirpath, placeholder_filename)
        target_file == TargetFile(dirpath, placeholder_filename)
        placeholder_file == PlaceholderFile(dirpath, placeholder_filename)
        same(r) == [result |-> r, fsT |-> fsT, fsA |-> fsA, wrote |-> << >>]
    IN  IF ~IsFile(fsA, path_to_archive, archived_file) THEN same("missing")
        ELSE IF IsFile(fsT, target_dir, target_file) THEN same("skipped")
        ELSE Restore(dirpath, archived_file, target_file, placeholder_file, fail)

\* Faulty variant: the destination is tested before the archived source
ProcessPlaceholder_SkipFirst(dirpath, placeholder_filename, dr, fail) ==
    LET archived_file == ArchivedFile(dirpath, placeholder_filename)
        target_file == TargetFile(dirpath, placeholder_filename)
        placeholder_file == PlaceholderFile(dirpath, placeholder_filename)
        same(r) == [result |-> r, fsT |-> fsT, fsA |-> fsA, wrote |-> << >>]
    IN  IF IsFile(fsT, target_dir, target_file) THEN same("skipped")
        ELSE IF ~IsFile(fsA, path_to_archive, archived_file) THEN same("missing")
        ELSE IF dr THEN same("restored")
        ELSE Restore(dirpath, archived_file, target_file, placeholder_file, fail)

ProcessPlaceholder(dirpath, placeholder_filename, dr, fail) ==
    LET archived_file == ArchivedFile(dirpath, placeholder_filename)
        target_file == TargetFile(dirpath, placeholder_filename)
        placeholder_file == PlaceholderFile(dirpath, placeholder_filename)
        same(r) == [result |-> r, fsT |-> fsT, fsA |-> fsA, wrote |-> << >>]
    IN  IF ~IsFile(fsA, path_to_archive, archived_file) THEN same("missing")
        ELSE IF IsFile(fsT, target_dir, target_file) THEN same("skipped")
        ELSE IF dr THEN same("restored")
        ELSE Restore(dirpath, archived_file, target_file, placeholder_file, fail)

-----------------------------------------------------------------------------
(* restore_archived_files *)

\* Faulty variant: the error case counts nothing
Tally_ErrorsUncounted(c, result) ==
    CASE result = "restored" -> [ok |-> TRUE, counts |-> [c EXCEPT !.restored = @ + 1]]
      [] result = "skipped" -> [ok |-> TRUE, counts |-> [c EXCEPT !.skipped = @ + 1]]
      [] result = "missing" -> [ok |-> TRUE, counts |-> [c EXCEPT !.missing = @ + 1]]
      [] result = "error" -> [ok |-> TRUE, counts |-> c]
      [] OTHER -> [ok |-> FALSE, counts |-> c]

\* the match statement
Tally(c, result) ==
    CASE result = "restored" -> [ok |-> TRUE, counts |-> [c EXCEPT !.restored = @ + 1]]
      [] result = "skipped" -> [ok |-> TRUE, counts |-> [c EXCEPT !.skipped = @ + 1]]
      [] result = "missing" -> [ok |-> TRUE, counts |-> [c EXCEPT !.missing = @ + 1]]
      [] result = "error" -> [ok |-> TRUE, counts |-> [c EXCEPT !.errors = @ + 1]]
      [] OTHER -> [ok |-> FALSE, counts |-> c]

\* one iteration of the for loop, given what process_placeholder returned
Iterate(dirpath, filename, r) ==
    LET t == Tally(counts, r.result) IN
    /\ fsT' = r.fsT
    /\ fsA' = r.fsA
    /\ counts' = t.counts
    /\ results' = Append(results, r.result)
    /\ idx' = IF t.ok THEN idx + 1 ELSE idx
    /\ pc' = IF t.ok THEN "loop" ELSE "raised"
    /\ raised' = IF t.ok THEN raised ELSE "UnknownResult"
    /\ current' = IF r.result = "restored"
                  THEN current \cup { [marker |-> KeyOf(target_dir, PlaceholderFile(dirpath, filename)),
                                       dest |-> w] : w \in Range(r.wrote) }
                  ELSE current
    /\ last' = [ dirpath |-> dirpath, filename |-> filename,
                 src |-> NodeAt(fsA, path_to_archive, ArchivedFile(dirpath, filename)),
                 dst |-> NodeAt(fsT, target_dir, TargetFile(dirpath, filename)),
                 dstKey |-> KeyOf(target_dir, TargetFile(dirpath, filename)),
                 marker |-> KeyOf(target_dir, PlaceholderFile(dirpath, filename)),
                 result |-> r.result, wrote |-> r.wrote,
                 changed |-> (r.fsT # fsT \/ r.fsA # fsA),
                 again |-> (\E e \in prior : e.dest \in Range(r.wrote)) ]
    /\ UNCHANGED << target_dir, dry_run, path_to_archive, placeholders, fs0,
                    prior, calls, pass, exit >>

Process ==
    /\ pc = "loop"
    /\ idx <= Len(placeholders)
    /\ \E fail \in Fails :
         LET dirpath == placeholders[idx][1]
             filename == placeholders[idx][2]
         IN  Iterate(dirpath, filename,
                     ProcessPlaceholder(dirpath, filename, dry_run, fail))

\* return restored, skipped, missing, errors; main prints the summary
Return ==
    /\ pc = "loop"
    /\ idx > Len(placeholders)
    /\ pc' = "exit"
    /\ exit' = "summary"
    /\ UNCHANGED << target_dir, dry_run, fsT, fsA, path_to_archive, raised,
                    placeholders, idx, counts, results, last, fs0, prior,
                    current, calls, pass >>

\* main's except clause: FATAL ERROR is printed and main returns
Fatal ==
    /\ pc = "raised"
    /\ pc' = "exit"
    /\ exit' = "fatal"
    /\ UNCHANGED << target_dir, dry_run, fsT, fsA, path_to_archive, raised,
                    placeholders, idx, counts, results, last, fs0, prior,
                    current, calls, pass >>

\* markers this pass deleted
Deleted == {k \in DOMAIN fsT : IsFileNode(fs0[k]) /\ fsT[k] = "absent"}

\* the script is run again on the same trees; in between, the archiving
\* process may have put back one of the markers the pass deleted
Rerun ==
    /\ pc = "exit"
    /\ pass < MaxPasses
    /\ \E back \in SUBSET Deleted :
         /\ Cardinality(back) <= 1
         /\ fsT' = [k \in DOMAIN fsT |-> IF k \in back THEN fs0[k] ELSE fsT[k]]
    /\ fs0' = fsT'
    /\ pass' = pass + 1
    /\ pc' = "validate"
    /\ raised' = "none"
    /\ exit' = "none"
    /\ path_to_archive' = << >>
    /\ placeholders' = << >>
    /\ idx' = 1
    /\ counts' = ZeroCounts
    /\ results' = << >>
    /\ last' = NoCall
    /\ prior' = prior \cup current
    /\ current' = {}
    /\ calls' = NoCalls
    /\ UNCHANGED << target_dir, dry_run, fsA >>

Next == Validate \/ Scan \/ Process \/ Return \/ Fatal \/ Rerun

Spec == Init /\ [][Next]_vars

\* The for loop when process_placeholder breaks its contract and returns a
\* value that is none of the four: the default case of the match
ProcessUnknown ==
    /\ pc = "loop"
    /\ idx <= Len(placeholders)
    /\ Iterate(placeholders[idx][1], placeholders[idx][2],
               [result |-> "unknown", fsT |-> fsT, fsA |-> fsA, wrote |-> << >>])

DriverNext == Validate \/ Scan \/ Process \/ ProcessUnknown \/ Return \/ Fatal \/ Rerun

\* the driver with an executor that may break its contract
SpecDriver == Init /\ [][DriverNext]_vars

-----------------------------------------------------------------------------
(* Properties *)

Called == last.result # "none"
MarkerPresent == IsFileNode(fsT[last.marker])

\* C1: whenever the destination path already exists when process_placeholder
\* inspects it, as a regular file or as a directory, and whatever the state
\* of the archived source, the call returns skipped and changes nothing in
\* the target or the archive.
C1_SkippedWheneverDestinationExists ==
    (Called /\ last.dst # "absent") =>
        (last.result = "skipped" /\ ~last.changed)

\* C2: in a dry run the target tree is at every moment the tree the pass
\* started with, no call changes the target or the archive, and a call
\* returns restored exactly when the state it inspected passes the missing
\* check (the archived source is a regular file) and the skipped check (the
\* destination is not a regular file), the two checks of the real run.
C2_DryRunMutatesNothing ==
    dry_run =>
        /\ fsT = fs0
        /\ ~last.changed
        /\ Called =>
              /\ last.result \in {"restored", "skipped", "missing"}
              /\ last.result = "restored" <=>
                    (IsFileNode(last.src) /\ ~IsFileNode(last.dst))

C2_Witness ==
    /\ dry_run
    /\ last.result = "restored"
    /\ Len(results) >= 2
    /\ results[1] = "restored"
    /\ exit = "summary"

\* C3: after a real call returned restored, the destination path is a regular
\* file holding the archived source's content, the marker is gone and the
\* archive is as before; after skipped or missing the marker is still there
\* and nothing changed.
C3_RestoredMeansCopiedAndMarkerGone ==
    ~dry_run =>
        /\ last.result = "restored" =>
              /\ IsFileNode(fsT[last.dstKey])
              /\ fsT[last.dstKey] = last.src
              /\ fsT[last.marker] = "absent"
              /\ NodeAt(fsA, path_to_archive, ArchivedFile(last.dirpath, last.filename)) = last.src
        /\ last.result \in {"skipped", "missing"} =>
              /\ MarkerPresent
              /\ ~last.changed

\* C6: whenever the archived source is not there as a file, in either mode,
\* the call returns missing, the marker stays, and nothing in the target or
\* the archive changes.
C6_MissingWhenSourceAbsent ==
    (Called /\ ~IsFileNode(last.src)) =>
        /\ last.result = "missing"
        /\ ~last.changed
        /\ MarkerPresent

C6_Witness ==
    /\ last.result = "missing"
    /\ last.src = "absent"
    /\ IsFileNode(last.dst)
    /\ ~dry_run
    /\ last.dirpath # target_dir

\* C4: once a placeholder was restored by a real pass, a later pass returns
\* skipped for a marker of that name that was put back, and no later pass
\* copies an archived file to a destination an earlier pass restored.
C4_NoDuplicateRestore ==
    /\ (Called /\ \E e \in prior : e.marker = last.marker) => last.result = "skipped"
    /\ ~last.again

Known == {"restored", "skipped", "missing", "error"}
Sum(c) == c.restored + c.skipped + c.missing + c.errors
Occurrences(r) == Cardinality({i \in 1..Len(results) : results[i] = r})
ScanDone == pc = "loop" \/ (pc = "exit" /\ exit = "summary")

\* C5: a real call whose copy or marker deletion fails returns error and
\* leaves things as the failed step left them: the marker is still there,
\* and when the copy had succeeded the copied file is there too, with the
\* archived content. The loop goes on with the next placeholder: nothing is
\* raised, each placeholder is processed once, and the run ends with the
\* summary after all of them.
C5_ErrorLeavesStateAndLoopContinues ==
    /\ last.result = "error" =>
          /\ ~dry_run
          /\ MarkerPresent
          /\ last.wrote # << >> =>
                /\ fsT[last.wrote[1]] = last.src
                /\ fsT[last.dstKey] # "absent"
          /\ raised = "none"
          /\ pc \in {"loop", "exit"}
          /\ idx = Len(results) + 1
    /\ (\E i \in 1..Len(results) : results[i] = "error") =>
          /\ raised = "none"
          /\ Len(results) <= Len(placeholders)
          /\ pc = "exit" => (exit = "summary" /\ Len(results) = Len(placeholders))

C5_Witness ==
    /\ exit = "summary"
    /\ Len(results) = 3
    /\ Occurrences("error") = 2
    /\ results[3] = "error"
    /\ fs0[<<A>>] = "absent" /\ fsT[<<A>>] = "P" /\ fsT[<<ATxt>>] = "P"
    /\ fs0[<<D, A>>] = "absent" /\ fsT[<<D, A>>] = "E" /\ fsT[<<D, ATxt>>] = "P"

ValidationErrors == {"TargetMissing", "AnchorMissing", "ArchiveMissing"}
AnchorInPath == \E i \in 1..Len(NormPath(target_dir)) : NormPath(target_dir)[i] = Anchor

\* C7: the validator tests, in this order, the target directory, the anchor
\* Shared among the components of the normalized target path, and the
\* archive directory, and raises a different error for each; after any of
\* them restore_archived_files has scanned nothing, processed nothing,
\* changed nothing and counted nothing, and main ends with FATAL ERROR
\* instead of the summary.
C7_ValidationFailureAborts ==
    /\ pc # "validate" =>
          /\ raised = "TargetMissing" <=> fsT[<< >>] # "dir"
          /\ raised = "AnchorMissing" <=> (fsT[<< >>] = "dir" /\ ~AnchorInPath)
          /\ raised = "ArchiveMissing" <=>
                (fsT[<< >>] = "dir" /\ AnchorInPath /\ fsA[<< >>] # "dir")
    /\ raised \in ValidationErrors =>
          /\ pc \in {"raised", "exit"}
          /\ calls = [validator |-> 1, scanner |-> 0]
          /\ placeholders = << >>
          /\ results = << >>
          /\ ~Called
          /\ fsT = fs0
          /\ counts = ZeroCounts
          /\ pc = "exit" => exit = "fatal"

C7_Witness ==
    /\ raised = "AnchorMissing"
    /\ exit = "fatal"
    /\ fsA[<< >>] # "dir"
    /\ \E i \in 1..Len(target_dir) : target_dir[i] = Anchor
    /\ IsFileNode(fsT[<<ATxt>>])

\* the .txt files of a tree whose first line holds the phrase in any case
HasPolicyFirstLine(node) == node \in {"P", "Q"}
Accepted(fs) ==
    { <<target_dir \o Front(k), Last(k)>> :
        k \in { j \in DOMAIN fs \ {<< >>} :
                  /\ HasPolicyFirstLine(fs[j])
                  /\ \E stem \in Names : Last(j) = stem \o Ext } }

\* C8: the scanner returns, each once, exactly the files of the target tree
\* whose name ends in .txt and whose first line can be read and holds
\* "automatic archiving policy" in any case; other files, unreadable ones
\* included, are left out and never processed, and the scan changes nothing.
C8_ScannerReturnsExactlyThePlaceholders ==
    /\ ScanDone =>
          /\ Range(placeholders) = Accepted(fs0)
          /\ Len(placeholders) = Cardinality(Accepted(fs0))
    /\ (pc = "loop" /\ idx = 1) => fsT = fs0
    /\ Called => <<last.dirpath, last.filename>> \in Accepted(fs0)
    /\ Sum(counts) <= Cardinality(Accepted(fs0))

C8_Witness ==
    /\ pc = "loop"
    /\ idx = 1
    /\ fs0[<<ATxtTxt>>] = "U"
    /\ fs0[<<ATxt>>] = "P"
    /\ fs0[<<A>>] = "N"
    /\ fs0[<<D, ATxt>>] = "P"
    /\ Len(placeholders) = 2

\* C9: a pass enters the validator once and the scanner once, then calls
\* process_placeholder for the placeholders in scan order, once each; every
\* result of the four kinds adds one to its own counter, so that the four
\* counts returned add up to the number of placeholders; a result of no
\* known kind is not counted and ends the run with an error.
C9_OneCallAndOneCountPerPlaceholder ==
    /\ calls.validator <= 1 /\ calls.scanner <= 1
    /\ ScanDone => calls = [validator |-> 1, scanner |-> 1]
    /\ Len(results) <= Len(placeholders)
    /\ Called => <<last.dirpath, last.filename>> = placeholders[Len(results)]
    /\ counts = [restored |-> Occurrences("restored"), skipped |-> Occurrences("skipped"),
                 missing |-> Occurrences("missing"), errors |-> Occurrences("error")]
    /\ pc = "loop" => (idx = Len(results) + 1 /\ Sum(counts) = Len(results))
    /\ exit = "summary" =>
          /\ Sum(counts) = Len(placeholders)
          /\ \A i \in 1..Len(results) : results[i] \in Known
    /\ \A i \in 1..Len(results) : results[i] \notin Known =>
          /\ i = Len(results)
          /\ raised = "UnknownResult"
          /\ pc \in {"raised", "exit"}
          /\ exit # "summary"
          /\ Sum(counts) = Len(results) - 1

C9_Witness ==
    /\ exit = "summary"
    /\ counts = [restored |-> 1, skipped |-> 1, missing |-> 0, errors |-> 1]

C9_WitnessUnknown ==
    /\ exit = "fatal"
    /\ raised = "UnknownResult"
    /\ Len(results) = 2
    /\ Len(placeholders) = 3

\* what a dry run returns for the call, from the tree the pass started with
DryOutcome(dirpath, filename) ==
    IF ~IsFile(fsA, path_to_archive, ArchivedFile(dirpath, filename)) THEN "missing"
    ELSE IF IsFile(fs0, target_dir, TargetFile(dirpath, filename)) THEN "skipped"
    ELSE "restored"

NoFailure == \A i \in 1..Len(results) : results[i] # "error"

\* C10: without I/O failure, a real pass returns for every placeholder what
\* a dry run from the same initial trees returns for it, whatever the order
\* of the placeholders.
C10_DryRunPredictsRealRun ==
    (~dry_run /\ NoFailure) =>
        \A i \in 1..Len(results) :
            results[i] = DryOutcome(placeholders[i][1], placeholders[i][2])

\* C10 as amended: without I/O failure the result of a call is decided by
\* the trees as they are when it inspects them (archived source a regular
\* file or not, destination a regular file or not), and the archive never
\* changes; so a real call returns what the dry run returns from the initial
\* trees whenever its destination is a regular file now exactly if it was
\* one when the pass started.
C10_OutcomeDependsOnInspectedState ==
    (Called /\ last.result # "error") =>
        /\ last.result = (IF ~IsFileNode(last.src) THEN "missing"
                          ELSE IF IsFileNode(last.dst) THEN "skipped"
                          ELSE "restored")
        /\ (IsFileNode(last.dst) <=> IsFileNode(fs0[last.dstKey])) =>
              last.result = DryOutcome(last.dirpath, last.filename)

C10_Witness ==
    /\ ~dry_run
    /\ NoFailure
    /\ Len(results) = 2
    /\ results[1] = "restored"
    /\ last.filename = ATxtTxt
    /\ last.result = "restored"
    /\ DryOutcome(last.dirpath, last.filename) = "skipped"

====
